---- MODULE Spec2Model ----
(***************************************************************************)
(* Model of baby_guesser_app.py: the guess store (one JSON shard per       *)
(* lower-cased guesser name in an S3 bucket), the form handler that        *)
(* appends a guess to a shard (save_guesses), the page render that reads   *)
(* every shard back (load_guesses) and the two aggregates the page derives *)
(* from the loaded guesses (name_counts, the chart's stack offset).        *)
(*                                                                         *)
(* Strings are sequences of one-character strings, so that str.lower,      *)
(* str.strip, str.endswith and the key f-string are computed, not assumed. *)
(* Weights are in tenths of a pound (7.5 lbs = 75), stack offsets in       *)
(* hundredths (0.05 = 5).                                                  *)
(***************************************************************************)
EXTENDS Integers, Sequences, FiniteSets, TLC

(* ------------------------------ bounds -------------------------------- *)

\* Total number of save_guesses calls started in one behaviour.
MaxSaves == 2

\* Longest guess list fed to the aggregates in AggSpec.
MaxAggLen == 3

(* --------------------------- program constants ------------------------ *)

MIN_WEIGHT == 50
MAX_WEIGHT == 120
stack_spacing == 5

\* The slider's values: MIN_WEIGHT .. MAX_WEIGHT in steps of 0.5 lbs.
SliderValues == {w \in MIN_WEIGHT..MAX_WEIGHT : (w - MIN_WEIGHT) % 5 = 0}

ArrivalOptions == {"Early", "On-time", "Late"}

(* ------------------------------ strings ------------------------------- *)

UpperChars ==
    <<"A","B","C","D","E","F","G","H","I","J","K","L","M",
      "N","O","P","Q","R","S","T","U","V","W","X","Y","Z">>
LowerChars ==
    <<"a","b","c","d","e","f","g","h","i","j","k","l","m",
      "n","o","p","q","r","s","t","u","v","w","x","y","z">>

Whitespace == {" ", "\t", "\n"}

\* str.lower on one character
lower_char(c) ==
    IF \E i \in 1..Len(UpperChars) : UpperChars[i] = c
    THEN LowerChars[CHOOSE i \in 1..Len(UpperChars) : UpperChars[i] = c]
    ELSE c

\* str.lower
str_lower(s) == [i \in 1..Len(s) |-> lower_char(s[i])]

RECURSIVE str_lstrip(_)
str_lstrip(s) ==
    IF s # <<>> /\ Head(s) \in Whitespace THEN str_lstrip(Tail(s)) ELSE s

RECURSIVE str_rstrip(_)
str_rstrip(s) ==
    IF s # <<>> /\ s[Len(s)] \in Whitespace
    THEN str_rstrip(SubSeq(s, 1, Len(s) - 1))
    ELSE s

\* str.strip
str_strip(s) == str_rstrip(str_lstrip(s))

\* str.endswith
str_endswith(s, suffix) ==
    /\ Len(suffix) <= Len(s)
    /\ SubSeq(s, Len(s) - Len(suffix) + 1, Len(s)) = suffix

\* The Prefix= filter of list_objects_v2
str_startswith(s, prefix) ==
    /\ Len(prefix) <= Len(s)
    /\ SubSeq(s, 1, Len(prefix)) = prefix

GUESSES_PREFIX == <<"g","u","e","s","s","e","s","/">>
JSON_EXT == <<".","j","s","o","n">>

\* key = f"guesses/{user_id}.json" with user_id = user_id.lower()
ShardKey(user_id) == GUESSES_PREFIX \o str_lower(user_id) \o JSON_EXT

(* --------------------------- names and guesses ------------------------ *)

Jane == <<"J","a","n","e">>
jane == <<"j","a","n","e">>
Bob == <<"B","o","b">>
BOB == <<"B","O","B">>
Alex == <<"A","l","e","x">>
alex_sp == <<"a","l","e","x"," ">>
ALEX == <<"A","L","E","X">>
sp_Sam == <<" ","S","a","m">>
Sam == <<"S","a","m">>
Max == <<"M","a","x">>
Empty == <<>>

MkGuess(gn, bn, w, a) ==
    [guesserName |-> gn, babyName |-> bn, weight |-> w, arrival |-> a]

(* ------------------------------- the store ---------------------------- *)

KeyJane == ShardKey(Jane)
KeyBob == ShardKey(Bob)
KeyNotes == GUESSES_PREFIX \o <<"n","o","t","e","s",".","t","x","t">>
KeyOther == <<"o","t","h","e","r","/","x",".","j","s","o","n">>

\* Every key of the bucket the model follows, in the order S3 lists keys
\* (ascending by bytes).
KeyOrder == <<KeyBob, KeyJane, KeyNotes, KeyOther>>
KeySpace == {KeyOrder[i] : i \in 1..Len(KeyOrder)}

\* The body of an object: a JSON array of guesses, or bytes json.loads rejects.
\* "absent" stands for a key the bucket does not hold.
Absent == [kind |-> "absent", items |-> <<>>]
Invalid == [kind |-> "invalid", items |-> <<>>]

\* json.dumps(guesses, indent=4)
json_dumps(guesses) == [kind |-> "array", items |-> guesses]

\* json.loads(body): the parsed list, or JSONDecodeError
json_loads(body) ==
    IF body.kind = "array"
    THEN [ok |-> TRUE, data |-> body.items]
    ELSE [ok |-> FALSE, data |-> <<>>]

\* response["Contents"] of s3.list_objects_v2(Bucket=BUCKET, Prefix="guesses/").
\* One response carries at most 1000 keys and the code asks for no second
\* page; the buckets followed here hold four keys.
list_objects_v2(st, prefix) ==
    SelectSeq(KeyOrder,
              LAMBDA k : st[k].kind # "absent" /\ str_startswith(k, prefix))

(* ----------------------------- load_guesses --------------------------- *)

\* A faulty variant of load_loop: the loop without the .json test, fetching and parsing
\* every listed key.
RECURSIVE load_loop_every_key(_, _, _, _)
load_loop_every_key(st, contents, i, acc) ==
    IF i > Len(contents)
    THEN [status |-> "ok", all_guesses |-> acc]
    ELSE LET parsed == json_loads(st[contents[i]])
         IN  IF ~parsed.ok
             THEN [status |-> "error", all_guesses |-> <<>>]
             ELSE load_loop_every_key(st, contents, i + 1, acc \o parsed.data)

\* The for loop of load_guesses over response["Contents"], from entry i on,
\* with all_guesses = acc. A key that does not end in .json is skipped before
\* any get_object; json.loads raising ends the call with the exception.
RECURSIVE load_loop(_, _, _, _)
load_loop(st, contents, i, acc) ==
    IF i > Len(contents)
    THEN [status |-> "ok", all_guesses |-> acc]
    ELSE IF ~str_endswith(contents[i], JSON_EXT)
    THEN load_loop(st, contents, i + 1, acc)
    ELSE LET parsed == json_loads(st[contents[i]])
         IN  IF ~parsed.ok
             THEN [status |-> "error", all_guesses |-> <<>>]
             ELSE load_loop(st, contents, i + 1, acc \o parsed.data)

\* load_guesses(): "ok" with the combined list, or "error" (JSONDecodeError)
load_guesses(st) ==
    LET contents == list_objects_v2(st, GUESSES_PREFIX)
    IN  IF contents = <<>>
        THEN [status |-> "ok", all_guesses |-> <<>>]
        ELSE load_loop(st, contents, 1, <<>>)

(* ------------------------------ aggregates ---------------------------- *)

\* df["babyName"].str.lower().str.strip().tolist()
normalized_names(all_guesses) ==
    [i \in 1..Len(all_guesses) |-> str_strip(str_lower(all_guesses[i].babyName))]

\* Counter(iterable): one pass, a new key starts at 1, a known key adds 1.
RECURSIVE Counter(_, _, _)
Counter(xs, i, c) ==
    IF i > Len(xs)
    THEN c
    ELSE IF xs[i] \in DOMAIN c
    THEN Counter(xs, i + 1, [c EXCEPT ![xs[i]] = @ + 1])
    ELSE Counter(xs, i + 1, c @@ (xs[i] :> 1))

EmptyCounter == [x \in {} |-> 0]

\* A faulty variant of name_counts: lower-cased but not stripped.
name_counts_unstripped(all_guesses) ==
    Counter([i \in 1..Len(all_guesses) |-> str_lower(all_guesses[i].babyName)],
            1, EmptyCounter)

\* name_counts = Counter(df["babyName"].str.lower().str.strip().tolist())
name_counts(all_guesses) == Counter(normalized_names(all_guesses), 1, EmptyCounter)

\* df.groupby('weight').cumcount(): one pass over the rows that keeps, per
\* weight seen so far, how many rows had it; a row gets the count before it.
RECURSIVE cumcount(_, _, _, _)
cumcount(all_guesses, i, seen, out) ==
    IF i > Len(all_guesses)
    THEN out
    ELSE LET w == all_guesses[i].weight
             n == IF w \in DOMAIN seen THEN seen[w] ELSE 0
         IN  cumcount(all_guesses, i + 1,
                      IF w \in DOMAIN seen
                      THEN [seen EXCEPT ![w] = n + 1]
                      ELSE seen @@ (w :> 1),
                      Append(out, n))

\* A faulty variant of stack: the row number instead of the count within the weight.
stack_ungrouped(all_guesses) ==
    [i \in 1..Len(all_guesses) |-> (i - 1) * stack_spacing]

\* df['stack'] = df.groupby('weight').cumcount() * stack_spacing
stack(all_guesses) ==
    LET cc == cumcount(all_guesses, 1, EmptyCounter, <<>>)
    IN  [i \in 1..Len(cc) |-> cc[i] * stack_spacing]

\* What the right-hand column derives from load_guesses()' result: nothing
\* when the load raised or the list is empty ("No guesses yet").
Aggregate(loaded) ==
    IF loaded.status = "ok" /\ loaded.all_guesses # <<>>
    THEN [status |-> "ok", all_guesses |-> loaded.all_guesses,
          name_counts |-> name_counts(loaded.all_guesses),
          stack |-> stack(loaded.all_guesses)]
    ELSE [status |-> loaded.status, all_guesses |-> <<>>,
          name_counts |-> EmptyCounter, stack |-> <<>>]

NoView == [status |-> "none", all_guesses |-> <<>>,
           name_counts |-> EmptyCounter, stack |-> <<>>]

(* ------------------------------- state -------------------------------- *)

\* Browser sessions, each running the script top to bottom on its own, one
\* run at a time: "idle" between runs, "get" and "put" inside save_guesses,
\* "load" before the right-hand column, "end" when the run is over (by the
\* last line or by an exception) and its page is on display.
Sessions == {"s1", "s2"}

VARIABLES
    store,      \* the bucket: key -> body (Absent when the key does not exist)
    pc,         \* per session: where its script run stands
    call,       \* per session: the locals of its save_guesses call, and as
                \* history: "before", what load_guesses() gave when the call
                \* began; "overlapped", whether its get fell between another
                \* call's get and put; "form", the two names of the form
                \* submission the run handles, if any
    outcome,    \* per session: "none", "warning", "success", "error" (exception)
    view,       \* per session: what the right-hand column last computed
    nsaves,     \* save_guesses calls started so far
    init_store, \* history: the bucket at the start
    log,        \* history: per key, the guesses of the completed puts, in put order
    written,    \* history: per key, whether any put happened
    raced,      \* history: per key, whether two calls on it ever overlapped
    clean       \* history: per session, no other put on its key since its get

vars == <<store, pc, call, outcome, view, nsaves, init_store, log, written,
          raced, clean>>

NoCall ==
    [active |-> FALSE, via_form |-> FALSE, user_id |-> Empty, key |-> Empty,
     new_guesses |-> <<>>, read |-> Absent, guesses |-> <<>>,
     before |-> [status |-> "none", all_guesses |-> <<>>],
     overlapped |-> FALSE, form |-> <<>>]

(* ------------------------------- inputs ------------------------------- *)

JaneSam == MkGuess(Jane, Sam, 75, "Early")
janeMax == MkGuess(jane, Max, 75, "Late")
BobSam == MkGuess(Bob, Sam, 80, "On-time")
OtherGuess == MkGuess(Max, Alex, 120, "Late")

\* What a guest can type into the form: name, baby name, slider, radio.
FormInputs ==
    { <<Jane, Sam, 75, "Early">>,
      <<jane, Max, 75, "Late">>,
      <<Bob, Sam, 80, "On-time">>,
      <<Empty, Sam, 80, "Early">>,
      <<Jane, Empty, 80, "Late">> }

\* Direct calls save_guesses(user_id, new_guesses): an id that is not the
\* guesser's name in another case, several guesses at once, none at all.
SaveInputs ==
    { <<BOB, <<BobSam, janeMax>> >>,
      <<Jane, <<>> >> }

\* A bucket given by the bodies under its four keys.
Bucket(j, b, n, o) ==
    [k \in KeySpace |->
        CASE k = KeyJane -> j
          [] k = KeyBob -> b
          [] k = KeyNotes -> n
          [] OTHER -> o]

\* Buckets the program can find: empty, shards written earlier, objects put
\* there by other means (an unparsable shard listed before or after a valid
\* one, a non-.json key under the prefix, a key outside the prefix).
InitStores ==
    { Bucket(Absent, Absent, Absent, Absent),
      Bucket(json_dumps(<<JaneSam>>), Absent, Absent, Absent),
      Bucket(Invalid, json_dumps(<<BobSam>>), Absent, Absent),
      Bucket(json_dumps(<<JaneSam>>), Invalid, Absent, Absent),
      Bucket(Invalid, Absent, Invalid, json_dumps(<<OtherGuess>>)),
      Bucket(json_dumps(<<JaneSam>>), json_dumps(<<BobSam>>), Invalid,
             json_dumps(<<OtherGuess>>)),
      Bucket(Absent, Absent, Invalid, json_dumps(<<OtherGuess>>)) }

EmptyStore == Bucket(Absent, Absent, Absent, Absent)

InitWith(st) ==
    /\ store = st
    /\ pc = [p \in Sessions |-> "idle"]
    /\ call = [p \in Sessions |-> NoCall]
    /\ outcome = [p \in Sessions |-> "none"]
    /\ view = [p \in Sessions |-> NoView]
    /\ nsaves = 0
    /\ init_store = st
    /\ log = [k \in KeySpace |-> <<>>]
    /\ written = [k \in KeySpace |-> FALSE]
    /\ raced = [k \in KeySpace |-> FALSE]
    /\ clean = [p \in Sessions |-> TRUE]

Init == \E st \in InitStores : InitWith(st)

\* A bucket only this program ever wrote to.
AppInit == InitWith(EmptyStore)

(* ------------------------------- actions ------------------------------ *)

history == <<init_store, log, written, raced, clean>>

\* save_guesses, lines 69-70: normalise the id, derive the key.
BeginSave(p, user_id, new_guesses, via_form) ==
    /\ nsaves < MaxSaves
    /\ nsaves' = nsaves + 1
    /\ call' = [call EXCEPT ![p] =
                  [active |-> TRUE, via_form |-> via_form,
                   user_id |-> str_lower(user_id),
                   key |-> ShardKey(user_id),
                   new_guesses |-> new_guesses, read |-> Absent,
                   guesses |-> <<>>, before |-> load_guesses(store),
                   overlapped |-> FALSE,
                   form |-> IF via_form
                            THEN <<new_guesses[1].guesserName,
                                   new_guesses[1].babyName>>
                            ELSE <<>>]]
    /\ pc' = [pc EXCEPT ![p] = "get"]
    /\ outcome' = [outcome EXCEPT ![p] = "none"]
    /\ view' = [view EXCEPT ![p] = NoView]
    /\ UNCHANGED <<store, history>>

\* The warning branch of the form handler: no call of save_guesses at all.
WarnOnly(p, guesser_name, baby_name_guess) ==
    /\ outcome' = [outcome EXCEPT ![p] = "warning"]
    /\ view' = [view EXCEPT ![p] = NoView]
    /\ call' = [call EXCEPT ![p] =
                  [NoCall EXCEPT !.form = <<guesser_name, baby_name_guess>>]]
    /\ pc' = [pc EXCEPT ![p] = "load"]
    /\ UNCHANGED <<store, nsaves, history>>

\* A faulty variant of FormSubmit: only the guesser's name is required.
FormSubmit_name_only(p, guesser_name, baby_name_guess, weight_guess, arrival_guess) ==
    /\ pc[p] = "idle"
    /\ weight_guess \in SliderValues
    /\ arrival_guess \in ArrivalOptions
    /\ IF guesser_name = Empty
       THEN WarnOnly(p, guesser_name, baby_name_guess)
       ELSE BeginSave(p, guesser_name,
                      <<MkGuess(guesser_name, baby_name_guess, weight_guess,
                                arrival_guess)>>, TRUE)

\* if submitted: the form's values are checked, then save_guesses is entered.
FormSubmit(p, guesser_name, baby_name_guess, weight_guess, arrival_guess) ==
    /\ pc[p] = "idle"
    /\ weight_guess \in SliderValues
    /\ arrival_guess \in ArrivalOptions
    /\ IF guesser_name = Empty \/ baby_name_guess = Empty
       THEN WarnOnly(p, guesser_name, baby_name_guess)
       ELSE BeginSave(p, guesser_name,
                      <<MkGuess(guesser_name, baby_name_guess, weight_guess,
                                arrival_guess)>>, TRUE)

\* A call of save_guesses from outside the form handler.
CallSave(p, user_id, new_guesses) ==
    /\ pc[p] = "idle"
    /\ BeginSave(p, user_id, new_guesses, FALSE)

\* A script run without a submission (page load, the refresh button).
Rerun(p) ==
    /\ pc[p] = "idle"
    /\ outcome' = [outcome EXCEPT ![p] = "none"]
    /\ view' = [view EXCEPT ![p] = NoView]
    /\ call' = [call EXCEPT ![p] = NoCall]
    /\ pc' = [pc EXCEPT ![p] = "load"]
    /\ UNCHANGED <<store, nsaves, history>>

\* A faulty variant of ReadShard: any failure to read or parse starts an empty list.
ReadShard_swallow(body) ==
    IF body.kind = "array"
    THEN json_loads(body)
    ELSE [ok |-> TRUE, data |-> <<>>]

\* The try block's outcome for the body found under the key: NoSuchKey gives
\* the empty list; a body json.loads rejects raises out of save_guesses.
ReadShard(body) ==
    IF body.kind = "absent"
    THEN [ok |-> TRUE, data |-> <<>>]
    ELSE json_loads(body)

\* A faulty variant of Extend: the new guesses go in front.
Extend_in_front(guesses, new_guesses) == new_guesses \o guesses

\* guesses.extend(new_guesses)
Extend(guesses, new_guesses) == guesses \o new_guesses

\* save_guesses, lines 71-77: get_object, json.loads, extend.
SaveGet(p) ==
    /\ pc[p] = "get"
    /\ LET k == call[p].key
           r == ReadShard(store[k])
       IN  IF r.ok
           THEN /\ call' = [call EXCEPT ![p].read = store[k],
                                        ![p].guesses = Extend(r.data, call[p].new_guesses),
                                        ![p].overlapped =
                                            \E q \in Sessions \ {p} : pc[q] = "put"]
                /\ pc' = [pc EXCEPT ![p] = "put"]
                /\ outcome' = outcome
                /\ clean' = [clean EXCEPT ![p] = TRUE]
                /\ raced' = [raced EXCEPT ![k] =
                               @ \/ \E q \in Sessions \ {p} :
                                       pc[q] = "put" /\ call[q].key = k]
           ELSE /\ call' = [call EXCEPT ![p].read = store[k]]
                /\ pc' = [pc EXCEPT ![p] = "end"]
                /\ outcome' = [outcome EXCEPT ![p] = "error"]
                /\ UNCHANGED <<clean, raced>>
    /\ UNCHANGED <<store, view, nsaves, init_store, log, written>>

\* A faulty variant of PutBody: only the new guesses are written.
PutBody_new_only(p) == json_dumps(call[p].new_guesses)

\* The body put_object stores under the key.
PutBody(p) == json_dumps(call[p].guesses)

\* A faulty variant of SavePut: the put re-reads the shard and appends to what it
\* holds now (a merge on conflict).
SavePut_merge(p) ==
    /\ pc[p] = "put"
    /\ LET k == call[p].key
       IN  /\ store' = [store EXCEPT ![k] =
                           json_dumps(store[k].items \o call[p].new_guesses)]
           /\ log' = [log EXCEPT ![k] = @ \o call[p].new_guesses]
           /\ written' = [written EXCEPT ![k] = TRUE]
           /\ clean' = [q \in Sessions |->
                          IF q # p /\ pc[q] = "put" /\ call[q].key = k
                          THEN FALSE ELSE clean[q]]
    /\ outcome' = [outcome EXCEPT ![p] = "success"]
    /\ pc' = [pc EXCEPT ![p] = IF call[p].via_form THEN "load" ELSE "end"]
    /\ UNCHANGED <<call, view, nsaves, init_store, raced>>

\* save_guesses, lines 79-84: put_object of the whole list; then, in the form
\* handler, st.success and on to the right-hand column.
SavePut(p) ==
    /\ pc[p] = "put"
    /\ LET k == call[p].key
       IN  /\ store' = [store EXCEPT ![k] = PutBody(p)]
           /\ log' = [log EXCEPT ![k] = @ \o call[p].new_guesses]
           /\ written' = [written EXCEPT ![k] = TRUE]
           /\ clean' = [q \in Sessions |->
                          IF q # p /\ pc[q] = "put" /\ call[q].key = k
                          THEN FALSE ELSE clean[q]]
    /\ outcome' = [outcome EXCEPT ![p] = "success"]
    /\ pc' = [pc EXCEPT ![p] = IF call[p].via_form THEN "load" ELSE "end"]
    /\ UNCHANGED <<call, view, nsaves, init_store, raced>>

\* The right-hand column: load_guesses(), then name_counts and the stack
\* offsets when there is any guess. The listing and the gets of one
\* load_guesses() are taken together, at one instant of the bucket.
Render(p) ==
    /\ pc[p] = "load"
    /\ view' = [view EXCEPT ![p] = Aggregate(load_guesses(store))]
    /\ pc' = [pc EXCEPT ![p] = "end"]
    /\ UNCHANGED <<store, call, outcome, nsaves, history>>

\* The run is over; nothing of it survives into the session's next run.
Finish(p) ==
    /\ pc[p] = "end"
    /\ pc' = [pc EXCEPT ![p] = "idle"]
    /\ call' = [call EXCEPT ![p] = NoCall]
    /\ outcome' = [outcome EXCEPT ![p] = "none"]
    /\ view' = [view EXCEPT ![p] = NoView]
    /\ clean' = [clean EXCEPT ![p] = TRUE]
    /\ UNCHANGED <<store, nsaves, init_store, log, written, raced>>

Submit == \E p \in Sessions, f \in FormInputs : FormSubmit(p, f[1], f[2], f[3], f[4])
Direct == \E p \in Sessions, c \in SaveInputs : CallSave(p, c[1], c[2])
Visit == \E p \in Sessions : Rerun(p)
Get == \E p \in Sessions : SaveGet(p)
Put == \E p \in Sessions : SavePut(p)
Show == \E p \in Sessions : Render(p)
End == \E p \in Sessions : Finish(p)

Next == Submit \/ Direct \/ Visit \/ Get \/ Put \/ Show \/ End

Spec == Init /\ [][Next]_vars

\* The program alone on a bucket that starts empty: every shard is written by
\* a form submission.
AppNext == Submit \/ Visit \/ Get \/ Put \/ Show \/ End

AppSpec == AppInit /\ [][AppNext]_vars

(* --------------------------- aggregates alone ------------------------- *)

\* Guesses as a shard can hold them: names in several cases and with
\* surrounding blanks, two weights.
AggGuesses ==
    { MkGuess(Jane, bn, w, "Early") : bn \in {Alex, alex_sp, ALEX, sp_Sam},
                                      w \in {75, 80} }

RECURSIVE SeqsUpTo(_, _)
SeqsUpTo(S, n) ==
    IF n = 0
    THEN {<<>>}
    ELSE LET shorter == SeqsUpTo(S, n - 1)
         IN  shorter \cup {Append(q, x) : q \in shorter, x \in S}

\* One shard holding any list of up to MaxAggLen guesses; the page is only
\* visited, so every such list goes through load_guesses and the aggregates.
AggInit ==
    \E gs \in SeqsUpTo(AggGuesses, MaxAggLen) :
        InitWith([EmptyStore EXCEPT ![KeyJane] = json_dumps(gs)])

AggNext == Visit \/ Show \/ End

AggSpec == AggInit /\ [][AggNext]_vars

(* ------------------------- vocabulary of the claims ------------------- *)

Count(x, xs) == Cardinality({i \in 1..Len(xs) : xs[i] = x})

Items(body) == IF body.kind = "array" THEN body.items ELSE <<>>

\* A key load_guesses fetches: under guesses/ and ending in .json
IsShardKey(k) ==
    /\ Len(k) >= Len(GUESSES_PREFIX) + Len(JSON_EXT)
    /\ \A i \in 1..Len(GUESSES_PREFIX) : k[i] = GUESSES_PREFIX[i]
    /\ \A i \in 1..Len(JSON_EXT) : k[Len(k) - Len(JSON_EXT) + i] = JSON_EXT[i]

ValidShards(st) ==
    SelectSeq(KeyOrder, LAMBDA k : IsShardKey(k) /\ st[k].kind = "array")

CorruptShards(st) ==
    SelectSeq(KeyOrder, LAMBDA k : IsShardKey(k) /\ st[k].kind = "invalid")

RECURSIVE ConcatShards(_, _)
ConcatShards(st, keys) ==
    IF keys = <<>>
    THEN <<>>
    ELSE st[Head(keys)].items \o ConcatShards(st, Tail(keys))

GetStep(p) == pc[p] = "get" /\ pc'[p] # "get"
PutStep(p) == pc[p] = "put" /\ pc'[p] # "put"
RenderStep(p) == pc[p] = "load" /\ pc'[p] = "end"

\* Nothing a load_guesses() could see changed between the start of p's
\* save_guesses call and now.
Undisturbed(p) == load_guesses(store) = call[p].before

(* -------------------------------- C1 ---------------------------------- *)

\* C1: once a save_guesses(id, [g]) has put its shard, with no other
\* operation in between, load_guesses() returns a list in which g occurs
\* exactly once more than in the load_guesses() taken just before the call.
C1_AppendThenLoadHasOneMore ==
    [][\A p \in Sessions :
          (PutStep(p) /\ Len(call[p].new_guesses) = 1 /\ Undisturbed(p)) =>
              LET g == call[p].new_guesses[1]
                  after == load_guesses(store')
              IN  /\ after.status = "ok"
                  /\ Count(g, after.all_guesses)
                       = Count(g, call[p].before.all_guesses) + 1]_vars

\* C1, where every shard of the bucket parses before the call: the same
\* statement, which the code then meets.
C1_HoldsWhenEveryShardParses ==
    [][\A p \in Sessions :
          (PutStep(p) /\ Len(call[p].new_guesses) = 1 /\ Undisturbed(p)
             /\ call[p].before.status = "ok") =>
              LET g == call[p].new_guesses[1]
                  after == load_guesses(store')
              IN  /\ after.status = "ok"
                  /\ Count(g, after.all_guesses)
                       = Count(g, call[p].before.all_guesses) + 1]_vars

(* -------------------------------- C2 ---------------------------------- *)

\* C2: a save_guesses whose get and put no other put on the same key came
\* between leaves the shard's previous guesses as an unchanged prefix and adds
\* its new guesses, in order, at the end.
C2_SequentialAppendsAccumulate ==
    [][\A p \in Sessions :
          (PutStep(p) /\ clean[p]) =>
              LET k == call[p].key
              IN  /\ store'[k].kind = "array"
                  /\ store'[k].items = Items(store[k]) \o call[p].new_guesses
                  /\ SubSeq(store'[k].items, 1, Len(Items(store[k])))
                       = Items(store[k])]_vars

\* C2 witness: two completed appends on jane's shard, one after the other,
\* on top of the guess it held at the start.
C2_Witness ==
    /\ ~raced[KeyJane]
    /\ init_store[KeyJane] = json_dumps(<<JaneSam>>)
    /\ store[KeyJane] = json_dumps(<<JaneSam, janeMax, JaneSam>>)

(* -------------------------------- C3 ---------------------------------- *)

\* C3: with one unparsable shard and any number of valid ones in the bucket,
\* load_guesses() does not fail and returns the guesses of the valid shards.
C3_LoadSkipsCorruptShard ==
    [][\A p \in Sessions :
          (RenderStep(p) /\ Len(CorruptShards(store)) = 1) =>
              /\ view'[p].status = "ok"
              /\ view'[p].all_guesses
                   = ConcatShards(store, ValidShards(store))]_vars

(* -------------------------------- C4 ---------------------------------- *)

\* C4: when the body under a caller's shard key is unparsable, save_guesses
\* ends in an error, never reaches its put, and leaves every key of the
\* bucket as it was.
C4_CorruptShardAbortsAppend ==
    [][\A p \in Sessions :
          (GetStep(p) /\ store[call[p].key].kind = "invalid") =>
              /\ outcome'[p] = "error"
              /\ pc'[p] = "end"
              /\ store' = store]_vars

\* C4 witness: a call on jane's unparsable shard has ended in the error and
\* the shard still holds the unparsable body.
C4_Witness ==
    \E p \in Sessions :
        /\ pc[p] = "end"
        /\ outcome[p] = "error"
        /\ call[p].key = KeyJane
        /\ call[p].new_guesses = <<JaneSam>>
        /\ store[KeyJane] = Invalid
        /\ ~written[KeyJane]

(* -------------------------------- C5 ---------------------------------- *)

\* C5: a put changes no key but the caller's own, and a shard on which no
\* two save_guesses calls ever overlapped holds exactly what it held at the
\* start followed by the guesses of every completed append on it, in order,
\* however the calls on other keys were interleaved with them.
C5_DisjointShardsLoseNothing ==
    /\ [](\A k \in KeySpace :
            ~raced[k] =>
                store[k] = IF written[k]
                           THEN json_dumps(Items(init_store[k]) \o log[k])
                           ELSE init_store[k])
    /\ [][\A p \in Sessions :
            PutStep(p) =>
                \A k \in KeySpace \ {call[p].key} : store'[k] = store[k]]_vars

\* C5 witness: two appends on different shards, the second one's get taken
\* between the first one's get and put, have both completed and both shards
\* hold their guess.
C5_Witness ==
    \E p, q \in Sessions :
        /\ p # q
        /\ outcome[p] = "success" /\ outcome[q] = "success"
        /\ call[p].key = KeyJane /\ call[q].key = KeyBob
        /\ call[q].overlapped
        /\ call[p].new_guesses # <<>> /\ call[q].new_guesses # <<>>
        /\ store[KeyJane] = json_dumps(Items(init_store[KeyJane]) \o call[p].new_guesses)
        /\ store[KeyBob] = json_dumps(Items(init_store[KeyBob]) \o call[q].new_guesses)

(* -------------------------------- C6 ---------------------------------- *)

\* C6: a put that comes after another call's put on the same key, both
\* having read the shard before either wrote, reports success and stores the
\* body it read plus its own guesses only: what the other call added is gone.
C6_LastWriteWins ==
    [][\A p \in Sessions :
          (PutStep(p) /\ ~clean[p]) =>
              LET k == call[p].key
              IN  /\ outcome'[p] = "success"
                  /\ store'[k] = json_dumps(Items(call[p].read) \o call[p].new_guesses)
                  /\ Len(store'[k].items)
                       = Len(Items(call[p].read)) + Len(call[p].new_guesses)]_vars

\* C6 witness: both sessions appended to jane's shard and both report
\* success; the shard holds the first guess and the later writer's guess, and
\* the other writer's guess, though logged as appended, is not in it.
C6_Witness ==
    \E p, q \in Sessions :
        /\ p # q
        /\ outcome[p] = "success" /\ outcome[q] = "success"
        /\ call[p].key = KeyJane /\ call[q].key = KeyJane
        /\ call[p].read = call[q].read
        /\ call[p].new_guesses = <<janeMax>>
        /\ call[q].new_guesses = <<JaneSam>>
        /\ init_store[KeyJane] = Absent
        /\ log[KeyJane] = <<JaneSam, janeMax>>
        /\ store[KeyJane] = json_dumps(<<janeMax>>)

(* -------------------------------- C9 ---------------------------------- *)

AllNamed(body) ==
    \A i \in 1..Len(Items(body)) :
        /\ Items(body)[i].guesserName # <<>>
        /\ Items(body)[i].babyName # <<>>

\* The step of session p that handles a form submission with an empty name.
EmptyFieldSubmit(p) ==
    /\ pc[p] = "idle"
    /\ Len(call'[p].form) = 2
    /\ (call'[p].form[1] = <<>> \/ call'[p].form[2] = <<>>)

\* C9: in a bucket written only through form submissions every stored guess
\* has a non-empty guesserName and babyName; a submission with an empty name
\* field shows the warning, enters no save_guesses call and leaves the bucket
\* untouched, and no run that handled one ever shows the success message.
C9_PersistedGuessesAreNamed ==
    /\ [](\A k \in KeySpace : AllNamed(store[k]))
    /\ [][\A p \in Sessions :
            EmptyFieldSubmit(p) =>
                /\ outcome'[p] = "warning"
                /\ store' = store
                /\ nsaves' = nsaves
                /\ ~call'[p].active
                /\ pc'[p] = "load"]_vars
    /\ [](\A p \in Sessions :
            (Len(call[p].form) = 2
               /\ (call[p].form[1] = <<>> \/ call[p].form[2] = <<>>)) =>
                /\ outcome[p] = "warning"
                /\ pc[p] \in {"load", "end"})

\* C9 witness: a submission with an empty field has ended in the warning
\* while the bucket holds guesses from earlier submissions.
C9_Witness ==
    \E p \in Sessions :
        /\ outcome[p] = "warning"
        /\ call[p].form = <<Jane, Empty>>
        /\ pc[p] = "end"
        /\ store[KeyJane] = json_dumps(<<JaneSam, janeMax>>)
        /\ view[p].all_guesses = <<JaneSam, janeMax>>

(* -------------------------------- C10 --------------------------------- *)

OfWeight(xs, w) == SelectSeq(xs, LAMBDA g : g.weight = w)

\* How many of the first i entries of xs have weight w.
RankIn(xs, i, w) == Cardinality({j \in 1..i : xs[j].weight = w})

StackLaidOut(gs, st) ==
    /\ Len(st) = Len(gs)
    /\ \A i \in 1..Len(gs) :
          st[i] = stack_spacing
                    * Cardinality({j \in 1..(i - 1) : gs[j].weight = gs[i].weight})
    /\ \A i, j \in 1..Len(gs) :
          (i < j /\ gs[i].weight = gs[j].weight) => st[i] < st[j]
    /\ \A i \in 1..Len(gs) :
          (\A j \in 1..(i - 1) : gs[j].weight # gs[i].weight) => st[i] = 0
    /\ \A i \in 1..Len(gs) :
          LET w == gs[i].weight
          IN  st[i] = stack(OfWeight(gs, w))[RankIn(gs, i, w)]

\* C7: the stack offset of a guess is the number of earlier guesses of the
\* same weight times the spacing: equal weights get different, increasing
\* offsets, the first of a weight gets 0, and a weight's offsets are those
\* its guesses get when laid out without the others.
C7_StackOffsets ==
    \A p \in Sessions :
        view[p].status = "ok" => StackLaidOut(view[p].all_guesses, view[p].stack)

\* C7 witness: three guesses, weights 7.5, 8.0, 7.5, laid out at 0, 0, 0.05.
C7_Witness ==
    \E p \in Sessions :
        /\ view[p].status = "ok"
        /\ Len(view[p].all_guesses) = 3
        /\ view[p].all_guesses[1].weight = 75
        /\ view[p].all_guesses[2].weight = 80
        /\ view[p].all_guesses[3].weight = 75
        /\ view[p].stack = <<0, 0, 5>>

(* -------------------------------- C8 ---------------------------------- *)

IsBlank(s) == \A i \in 1..Len(s) : s[i] \in Whitespace

\* n is s lower-cased with the blanks at both ends removed.
IsNormalOf(n, s) ==
    /\ n = <<>> \/ (n[1] \notin Whitespace /\ n[Len(n)] \notin Whitespace)
    /\ \A i \in 1..Len(n) : \A u \in 1..Len(UpperChars) : n[i] # UpperChars[u]
    /\ \E a \in 0..Len(s) :
          /\ a + Len(n) <= Len(s)
          /\ IsBlank(SubSeq(s, 1, a))
          /\ IsBlank(SubSeq(s, a + Len(n) + 1, Len(s)))
          /\ \A i \in 1..Len(n) :
                \/ n[i] = s[a + i]
                \/ \E u \in 1..Len(UpperChars) :
                      s[a + i] = UpperChars[u] /\ n[i] = LowerChars[u]

RECURSIVE SumOver(_, _)
SumOver(f, S) ==
    IF S = {}
    THEN 0
    ELSE LET x == CHOOSE y \in S : TRUE
         IN  f[x] + SumOver(f, S \ {x})

NamesCounted(gs, nc) ==
    /\ \A i \in 1..Len(gs) : \E n \in DOMAIN nc : IsNormalOf(n, gs[i].babyName)
    /\ \A n \in DOMAIN nc :
          /\ \E i \in 1..Len(gs) : IsNormalOf(n, gs[i].babyName)
          /\ nc[n] = Cardinality({i \in 1..Len(gs) : IsNormalOf(n, gs[i].babyName)})
    /\ SumOver(nc, DOMAIN nc) = Len(gs)

\* C8: name_counts has one key per distinct lower-cased, stripped babyName,
\* each counting the guesses that normalise to it, the counts adding up to
\* the number of guesses.
C8_NameCounts ==
    \A p \in Sessions :
        view[p].status = "ok" => NamesCounted(view[p].all_guesses, view[p].name_counts)

\* C8 witness: "Alex", "alex " and "ALEX" counted under the one key "alex".
C8_Witness ==
    \E p \in Sessions :
        /\ view[p].status = "ok"
        /\ Len(view[p].all_guesses) = 3
        /\ view[p].all_guesses[1].babyName = Alex
        /\ view[p].all_guesses[2].babyName = alex_sp
        /\ view[p].all_guesses[3].babyName = ALEX
        /\ DOMAIN view[p].name_counts = {<<"a","l","e","x">>}
        /\ view[p].name_counts[<<"a","l","e","x">>] = 3

====
